---------------------------- MODULE Spec2Model ----------------------------
(***************************************************************************)
(* A model of the memory-management core of the kernel: the contiguous     *)
(* frame pool (src/cont_frame_pool.C) with its process-wide registry of    *)
(* pools, the virtual-memory pool (src/vm_pool.C) and the page table with  *)
(* its fault handler (src/page_table.C).                                   *)
(*                                                                         *)
(* Numbers are the 32-bit unsigned values of the i386 build.  A value that *)
(* wrapped below zero (info_frame_no - base_frame_no with the info frame   *)
(* below the pool) is carried as its negative residue d, standing for      *)
(* 2^32 + d; BitmapIndex and BitOffset compute from it what the unsigned   *)
(* arithmetic of set_state computes.  A byte address or byte count is      *)
(* carried as <<page, offset>>, standing for page * PAGE_SIZE + offset,    *)
(* with page taken modulo 2^20.                                            *)
(***************************************************************************)
EXTENDS Integers, Sequences, FiniteSets, TLC

(***************************** bounds **************************************)
\* Number of ContFramePool objects constructed where the frame operations are
\* checked (Spec, SpecAlloc).
NPools == 2
\* Number of ContFramePool objects constructed and destroyed where the
\* registry is checked (SpecReg).
NRegPools == 4
\* Largest base frame number handed to the constructor.
MaxBase == 2
\* Largest pool size (_n_frames) handed to the constructor.
MaxSize == 3
\* Largest info frame number handed to the constructor.
MaxInfo == 2
\* Capacity of the arena of registry nodes (cont_frame_pool.H sets it).
MAX_FRAME_POOLS == 3
\* Number of VMPool objects.
NVMPools == 2
\* Capacity of the pool array of a PageTable (page_table.H sets it).
MAX_POOLS == 2
\* Largest size, in pages, of a VMPool whose regions are followed one by one.
MaxVMPages == 3
\* Most entries either region array holds where the regions are followed one
\* by one (SpecVM); SpecFill runs to the capacity of the arrays.
MaxVMRegions == 3
\* The frame counts handed to needed_info_frames lie within MaxNifPages * 4096
\* of 0, of 2^31 and of 2^32.
MaxNifPages == 16
\* Frames of the kernel pool and of the process pool at boot.
KernelFrames == 1
ProcFrames == 4

(************************* program constants *******************************)
FRAME_SIZE == 4096
\* bits_per_info_frame = 4096 * 8 (needed_info_frames)
BitsPerInfoFrame == 32768
\* 2^32 / 8: what the wrap of (_frame_no * 2) leaves of a value below zero
TwoPow29 == 536870912
nullptr == -1
\* the 2-bit patterns set_state writes
BitsFree == 0
BitsUsed == 1
BitsHoS == 2

NoPool == 0
Slots == 0..(MAX_FRAME_POOLS - 1)
FrameNos == 0..(MaxBase + MaxSize)
\* first frame of the kernel pool (2 MiB) and of the process pool (4 MiB)
KernelBase == 512
ProcBase == 1024
\* first page past the identity-mapped 4 MiB
VMBasePage == 1024

VARIABLES
    pools,            \* the ContFramePool objects: state, fields, bitmap cells
    framePoolNodes,   \* the arena of registry nodes
    head,             \* first node of the registry list
    tail,             \* last node of the registry list
    next_free_node,   \* number of arena slots handed out
    stray,            \* bitmap cells outside the pool's n cells written by the last call
    hung,             \* the kernel spins in a registry walk or has trapped
    last              \* the last call: operation, pool, first argument, return value

vars == <<pools, framePoolNodes, head, tail, next_free_node, stray, hung, last>>

VARIABLES
    vmpools,             \* the VMPool objects: fields, region arrays, counts
    page_table,          \* the PageTable object: directory frame, registered pools
    current_page_table,  \* PageTable::current_page_table
    paging_enabled,      \* PageTable::paging_enabled
    kernel_mem_pool,     \* PageTable::kernel_mem_pool
    process_mem_pool,    \* PageTable::process_mem_pool
    mem,                 \* the words of the physical frames that hold paging structures
    vmlast               \* the last VMPool or PageTable call: operation, pool, argument, return value

vmvars == <<vmpools, page_table, current_page_table, paging_enabled,
           kernel_mem_pool, process_mem_pool, mem, vmlast>>

allvars == <<vars, vmvars>>

(************************* the bitmap: 2 bits per frame ********************)
\* byte of the bitmap that holds the two bits of cell idx
BitmapIndex(idx) ==
    IF idx >= 0 THEN (idx * 2) \div 8 ELSE TwoPow29 + ((idx * 2) \div 8)

\* position of the two bits inside that byte
BitOffset(idx) == (idx * 2) % 8

Loc(idx) == <<BitmapIndex(idx), BitOffset(idx)>>

\* the cells the pool's n frames occupy
Cells(n) == {Loc(i) : i \in 0..(n - 1)}

EncodeState(s) ==
    CASE s = "Free" -> BitsFree
      [] s = "Used" -> BitsUsed
      [] s = "HoS" -> BitsHoS

\* static_cast<FrameState>(bits)
DecodeState(bits) ==
    CASE bits = 0 -> "Free"
      [] bits = 1 -> "Used"
      [] bits = 2 -> "HoS"
      [] OTHER -> "Invalid"

\* set_state on a bitmap bm: the cell's two bits are cleared and the state's
\* pattern is or-ed in; a cell that is none of the pool's n cells is memory
\* the pool never reads, and the write is recorded by StrayOf instead
set_state(bm, idx, s) ==
    IF Loc(idx) \in DOMAIN bm
    THEN [bm EXCEPT ![Loc(idx)] = EncodeState(s)]
    ELSE bm

get_state(bm, idx) == DecodeState(bm[Loc(idx)])

StrayOf(bm, idxs) == {Loc(i) : i \in {j \in idxs : Loc(j) \notin DOMAIN bm}}

RECURSIVE SetAll(_, _, _)
\* set_state(i, s) for every i of the finite set idxs
SetAll(bm, idxs, s) ==
    IF idxs = {} THEN bm
    ELSE LET i == CHOOSE x \in idxs : TRUE
         IN SetAll(set_state(bm, i, s), idxs \ {i}, s)

needed_info_frames(n) ==
    LET total_bits_needed == n * 2
        info_frames_needed == total_bits_needed \div BitsPerInfoFrame
    IN IF total_bits_needed % BitsPerInfoFrame > 0
       THEN info_frames_needed + 1
       ELSE info_frames_needed

(***************************** the registry ********************************)
NoNode == [pool |-> NoPool, prev |-> nullptr, next |-> nullptr]

Unborn ==
    [st |-> "unborn", base_frame_no |-> 0, nframes |-> 0, info_frame_no |-> 0,
     arg_base |-> 0, bitmap |-> <<>>]

\* no pool constructed yet, the registry empty; ids names the pool objects
InitWith(ids) ==
    /\ pools = [p \in ids |-> Unborn]
    /\ framePoolNodes = [s \in Slots |-> NoNode]
    /\ head = nullptr
    /\ tail = nullptr
    /\ next_free_node = 0
    /\ stray = {}
    /\ hung = FALSE
    /\ last = [op |-> "none", pool |-> NoPool, a |-> 0, ret |-> 0]

\* add_frame_pool: the registry after the call, as [nodes, head, tail, nfn]
add_frame_pool(p) ==
    IF next_free_node >= MAX_FRAME_POOLS
    THEN [nodes |-> framePoolNodes, head |-> head, tail |-> tail,
          nfn |-> next_free_node]
    ELSE LET new_node == next_free_node
             n1 == [framePoolNodes EXCEPT
                      ![new_node] = [pool |-> p, prev |-> nullptr, next |-> head]]
             n2 == IF head # nullptr
                   THEN [n1 EXCEPT ![head].prev = new_node]
                   ELSE n1
         IN [nodes |-> n2,
             head |-> new_node,
             tail |-> IF head # nullptr THEN tail ELSE new_node,
             nfn |-> next_free_node + 1]


RECURSIVE WalkRemove(_, _, _)
\* the while loop of remove_frame_pool: the node holding pool p, nullptr when
\* the list ends without it, "loop" when the walk never ends (the list it
\* walks is cyclic and does not hold p)
WalkRemove(current, p, fuel) ==
    IF current = nullptr THEN [kind |-> "none", node |-> nullptr]
    ELSE IF fuel = 0 THEN [kind |-> "loop", node |-> nullptr]
    ELSE IF framePoolNodes[current].pool = p
         THEN [kind |-> "found", node |-> current]
         ELSE WalkRemove(framePoolNodes[current].next, p, fuel - 1)

\* remove_frame_pool on a found node: the registry after the call
Unlink(current) ==
    LET cprev == framePoolNodes[current].prev
        n1 == IF cprev # nullptr
              THEN [framePoolNodes EXCEPT ![cprev].next = framePoolNodes[current].next]
              ELSE framePoolNodes
        h1 == IF cprev # nullptr THEN head ELSE framePoolNodes[current].next
        cnext == n1[current].next
        n2 == IF cnext # nullptr
              THEN [n1 EXCEPT ![cnext].prev = n1[current].prev]
              ELSE n1
        h2 == IF cnext # nullptr THEN h1 ELSE n1[current].prev
        nfn == next_free_node - 1
        n3 == [n2 EXCEPT ![current] = n2[nfn]]
    IN [nodes |-> n3, head |-> h2, tail |-> tail, nfn |-> nfn]

remove_frame_pool(p) ==
    LET w == WalkRemove(head, p, MAX_FRAME_POOLS)
    IN IF w.kind = "found"
       THEN Unlink(w.node)
       ELSE [nodes |-> framePoolNodes, head |-> head, tail |-> tail,
             nfn |-> next_free_node]

(************************ construction, destruction ************************)
\* the frame that holds the pool's bitmap
BitmapFrame(base, info) == IF info = 0 THEN base ELSE info

Constructed == {q \in DOMAIN pools : pools[q].st # "unborn"}

\* what the kernel guarantees of the pools it constructs: the frame ranges
\* handed to the constructors are disjoint, and no two bitmaps share a frame
EnvOk(base, n, info) ==
    \A q \in Constructed :
        /\ \/ base + n <= pools[q].arg_base
           \/ pools[q].arg_base + pools[q].nframes <= base
        /\ BitmapFrame(base, info)
             # BitmapFrame(pools[q].arg_base, pools[q].info_frame_no)

\* base_frame_no as the constructor leaves it
EffectiveBase(base, n, info) ==
    IF info = 0 THEN base + needed_info_frames(n) ELSE base

\* the n cells after the constructor's loop: whatever the memory held, every
\* cell is set Free
FreshBitmap(n) ==
    SetAll([c \in Cells(n) |-> 3], 0..(n - 1), "Free")

\* the index the constructor marks Used when info_frame_no is not 0
InfoIndex(base, n, info) == info - EffectiveBase(base, n, info)

\* a variant of ConstructBitmap that leaves the info frame Free; C25 tells
\* it from ConstructBitmap
ConstructBitmap_NoMark(base, n, info) == FreshBitmap(n)

\* the bitmap the constructor leaves
ConstructBitmap(base, n, info) ==
    IF info # 0
    THEN set_state(FreshBitmap(n), InfoIndex(base, n, info), "Used")
    ELSE FreshBitmap(n)

\* ContFramePool::ContFramePool(_base_frame_no, _n_frames, _info_frame_no)
Construct(p, base, n, info) ==
    /\ ~hung
    /\ pools[p].st = "unborn"
    /\ \A q \in DOMAIN pools : q < p => pools[q].st # "unborn"
    /\ n <= FRAME_SIZE * 8
    /\ EnvOk(base, n, info)
    /\ LET reg == add_frame_pool(p)
       IN /\ pools' = [pools EXCEPT ![p] =
                 [st |-> "live", base_frame_no |-> EffectiveBase(base, n, info),
                  nframes |-> n, info_frame_no |-> info, arg_base |-> base,
                  bitmap |-> ConstructBitmap(base, n, info)]]
          /\ framePoolNodes' = reg.nodes
          /\ head' = reg.head
          /\ tail' = reg.tail
          /\ next_free_node' = reg.nfn
          /\ stray' = IF info # 0
                      THEN StrayOf(FreshBitmap(n), {InfoIndex(base, n, info)})
                      ELSE {}
          /\ hung' = FALSE
          /\ last' = [op |-> "construct", pool |-> p, a |-> base, ret |-> 0]

\* ContFramePool::~ContFramePool()
Destroy(p) ==
    /\ ~hung
    /\ pools[p].st = "live"
    /\ LET w == WalkRemove(head, p, MAX_FRAME_POOLS)
           reg == remove_frame_pool(p)
       IN /\ pools' = [pools EXCEPT ![p].st = "dead"]
          /\ framePoolNodes' = reg.nodes
          /\ head' = reg.head
          /\ tail' = reg.tail
          /\ next_free_node' = reg.nfn
          /\ stray' = {}
          /\ hung' = (w.kind = "loop")
          /\ last' = [op |-> "destroy", pool |-> p, a |-> 0, ret |-> 0]

(******************************* get_frames ********************************)
RECURSIVE WindowFree(_, _, _, _)
\* the inner loop of get_frames: cells i+j .. i+k-1 are all Free
WindowFree(bm, i, j, k) ==
    IF j >= k THEN TRUE
    ELSE IF get_state(bm, i + j) # "Free" THEN FALSE
    ELSE WindowFree(bm, i, j + 1, k)

\* a variant of Scan that takes the last free window instead of the first;
\* C5 tells it from Scan
Scan_LastFit(bm, n, k, i) ==
    LET W == {x \in i..(n - k) : WindowFree(bm, x, 0, k)}
    IN IF W = {} THEN nullptr ELSE CHOOSE x \in W : \A y \in W : y <= x

RECURSIVE Scan(_, _, _, _)
\* the outer loop of get_frames from index i on: the first i <= n - k whose
\* window is free, or nullptr when the loop ends without one
Scan(bm, n, k, i) ==
    IF i > n - k THEN nullptr
    ELSE IF WindowFree(bm, i, 0, k) THEN i
    ELSE Scan(bm, n, k, i + 1)

\* a variant of MarkRun that marks the head of the run Used like the rest;
\* C1 tells it from MarkRun
MarkRun_HeadUsed(bm, i, k) == SetAll(bm, i..(i + k - 1), "Used")

\* the bitmap after get_frames found the window at i
MarkRun(bm, i, k) ==
    SetAll(set_state(bm, i, "HoS"), (i + 1)..(i + k - 1), "Used")

\* a variant of InvalidRequest that lets a request for no frame through;
\* C8 tells it from InvalidRequest
InvalidRequest_ZeroAllowed(n, k) == k > n

\* the request get_frames refuses
InvalidRequest(n, k) == k = 0 \/ k > n

\* ContFramePool::get_frames(_n_frames) on pool p
GetFrames(p, k) ==
    /\ ~hung
    /\ pools[p].st = "live"
    /\ LET n == pools[p].nframes
           bm == pools[p].bitmap
           i == IF InvalidRequest(n, k) THEN nullptr ELSE Scan(bm, n, k, 0)
       IN /\ pools' = IF i = nullptr THEN pools
                      ELSE [pools EXCEPT ![p].bitmap = MarkRun(bm, i, k)]
          /\ last' = [op |-> "get_frames", pool |-> p, a |-> k,
                      ret |-> IF i = nullptr THEN 0
                              ELSE pools[p].base_frame_no + i]
    /\ stray' = {}
    /\ UNCHANGED <<framePoolNodes, head, tail, next_free_node, hung>>

(**************************** mark_inaccessible ****************************)
\* ContFramePool::mark_inaccessible(_base_frame_no, _n_frames) on pool p
MarkInaccessible(p, b, k) ==
    /\ ~hung
    /\ pools[p].st = "live"
    /\ LET bm == pools[p].bitmap
           out == \/ b < pools[p].base_frame_no
                  \/ b + k > pools[p].base_frame_no + pools[p].nframes
           start_index == b + 1
           used == start_index..(start_index + k - 1)
       IN /\ pools' = IF out THEN pools
                      ELSE [pools EXCEPT ![p].bitmap =
                              SetAll(set_state(bm, b, "HoS"), used, "Used")]
          /\ stray' = IF out THEN {} ELSE StrayOf(bm, {b} \cup used)
    /\ last' = [op |-> "mark_inaccessible", pool |-> p, a |-> b, ret |-> 0]
    /\ UNCHANGED <<framePoolNodes, head, tail, next_free_node, hung>>

(***************************** release_frames ******************************)
InPool(q, f) ==
    /\ f >= pools[q].base_frame_no
    /\ f < pools[q].base_frame_no + pools[q].nframes

RECURSIVE WalkRelease(_, _, _, _)
\* the while loop of release_frames: the first node of the list whose pool's
\* range holds frame f.  dangling: the walk read the fields of a destroyed
\* pool on its way
WalkRelease(current, f, fuel, dangling) ==
    IF current = nullptr
    THEN [kind |-> "none", pool |-> NoPool, dangling |-> dangling]
    ELSE IF fuel = 0
    THEN [kind |-> "loop", pool |-> NoPool, dangling |-> dangling]
    ELSE LET q == framePoolNodes[current].pool
             d == dangling \/ pools[q].st # "live"
         IN IF InPool(q, f)
            THEN [kind |-> "found", pool |-> q, dangling |-> d]
            ELSE WalkRelease(framePoolNodes[current].next, f, fuel - 1, d)

RECURSIVE FreeRun(_, _, _)
\* the loop of release_frames from index on: cells are set Free up to the
\* first one that is Free or HoS, or the end of the pool
FreeRun(bm, index, n) ==
    IF /\ index < n
       /\ get_state(bm, index) # "HoS"
       /\ get_state(bm, index) # "Free"
    THEN FreeRun(set_state(bm, index, "Free"), index + 1, n)
    ELSE bm

\* a variant of ReleaseIn without the test for a head of sequence; C9 tells it
\* from ReleaseIn
ReleaseIn_NoHeadTest(q, f) ==
    LET index == f - pools[q].base_frame_no
    IN FreeRun(set_state(pools[q].bitmap, index, "Free"), index + 1,
               pools[q].nframes)

\* the pool's bitmap after release_frames found frame f in pool q
ReleaseIn(q, f) ==
    LET index == f - pools[q].base_frame_no
        bm == pools[q].bitmap
    IN IF get_state(bm, index) # "HoS" THEN bm
       ELSE FreeRun(set_state(bm, index, "Free"), index + 1, pools[q].nframes)

\* ContFramePool::release_frames(_first_frame_no).  A walk that reads a
\* destroyed pool reads freed storage: it finds the fields as the destructor
\* left them, or it traps (trap)
ReleaseFrames(f, trap) ==
    /\ ~hung
    /\ LET w == WalkRelease(head, f, MAX_FRAME_POOLS, FALSE)
       IN /\ trap => w.dangling
          /\ pools' = IF w.kind = "found" /\ ~trap
                      THEN [pools EXCEPT ![w.pool].bitmap = ReleaseIn(w.pool, f)]
                      ELSE pools
          /\ hung' = (trap \/ w.kind = "loop")
          /\ last' = [op |-> "release_frames", pool |-> w.pool, a |-> f,
                      ret |-> 0]
    /\ stray' = {}
    /\ UNCHANGED <<framePoolNodes, head, tail, next_free_node>>

(******************************* addresses *********************************)
PAGE_SIZE == 4096
\* the pages of the 32-bit address space: 2^32 / PAGE_SIZE
TwoPow20 == 1048576
\* the slots of each region array of a VMPool
REGION_SLOTS == 256

NullAddr == <<0, 0>>

\* _address / PAGE_SIZE
PageOf(a) == a[1]

\* page * PAGE_SIZE, in 32 bits
AddrOfPage(page) == <<page % TwoPow20, 0>>

\* a + b and a - 1 on 32-bit addresses
AddrPlus(a, b) ==
    <<(a[1] + b[1] + ((a[2] + b[2]) \div PAGE_SIZE)) % TwoPow20,
      (a[2] + b[2]) % PAGE_SIZE>>

AddrMinusOne(a) ==
    IF a[2] > 0 THEN <<a[1], a[2] - 1>>
    ELSE <<(a[1] + TwoPow20 - 1) % TwoPow20, PAGE_SIZE - 1>>

\* (_size + PAGE_SIZE - 1) / PAGE_SIZE, the sum in 32 bits
PagesNeeded(sz) == (sz[1] + (IF sz[2] > 0 THEN 1 ELSE 0)) % TwoPow20

\* x as a 32-bit value
Word32(x) == <<(x \div PAGE_SIZE) % TwoPow20, x % PAGE_SIZE>>

\* ContFramePool::needed_info_frames(_n_frames) on a 32-bit _n_frames given as
\* <<n \div 4096, n % 4096>>: total_bits_needed = _n_frames * 2 in 32 bits,
\* divided by bits_per_info_frame = 8 * 4096, one more for a remainder
needed_info_frames_32(n) ==
    LET total_bits_needed == AddrPlus(n, n)
        pages_per_info_frame == BitsPerInfoFrame \div PAGE_SIZE
        info_frames_needed == total_bits_needed[1] \div pages_per_info_frame
        remainder == (total_bits_needed[1] % pages_per_info_frame) * PAGE_SIZE
                         + total_bits_needed[2]
    IN IF remainder > 0 THEN info_frames_needed + 1 ELSE info_frames_needed

(************************* the virtual-memory pool *************************)
\* The region arrays are carried as sequences that hold the first free_count
\* (allocated_count) entries; entry i of the code is entry i + 1 here.
VMUnborn ==
    [st |-> "unborn", base_address |-> NullAddr, size |-> NullAddr,
     free_base_page |-> <<>>, free_length |-> <<>>, free_count |-> 0,
     allocated_base_page |-> <<>>, allocated_length |-> <<>>,
     allocated_count |-> 0, wild |-> FALSE]

\* PageTable::register_pool: the PageTable object after the call
register_pool(v) ==
    IF page_table.pool_count < MAX_POOLS
    THEN [page_table EXCEPT !.vm_pools = Append(@, v), !.pool_count = @ + 1]
    ELSE page_table

\* VMPool::VMPool(_base_address, _size, _frame_pool, _page_table)
VMConstruct(v, base, size) ==
    /\ vmpools[v].st = "unborn"
    /\ \A u \in DOMAIN vmpools : u < v => vmpools[u].st # "unborn"
    /\ page_table.st = "live"
    /\ vmpools' = [vmpools EXCEPT ![v] =
          [VMUnborn EXCEPT !.st = "live", !.base_address = base, !.size = size,
                           !.free_base_page = <<PageOf(base)>>,
                           !.free_length = <<PageOf(size)>>,
                           !.free_count = 1]]
    /\ page_table' = register_pool(v)
    /\ vmlast' = [op |-> "construct", pool |-> v, a |-> base, ret |-> NullAddr]
    /\ UNCHANGED <<current_page_table, paging_enabled, kernel_mem_pool,
                   process_mem_pool, mem>>
    /\ UNCHANGED vars

RECURSIVE FirstFree(_, _, _)
\* the loop of allocate from entry i on: the first free region of at least k
\* pages, nullptr when there is none
FirstFree(vp, k, i) ==
    IF i > vp.free_count THEN nullptr
    ELSE IF vp.free_length[i] >= k THEN i
    ELSE FirstFree(vp, k, i + 1)

\* arr[i] = arr[--count]: the first count - 1 entries after the assignment
RemoveAt(arr, i) ==
    [j \in 1..(Len(arr) - 1) |-> IF j = i THEN arr[Len(arr)] ELSE arr[j]]

\* allocate takes k pages from the front of free region i
TakeFree(vp, i, k) ==
    LET fb == [vp.free_base_page EXCEPT ![i] = @ + k]
        fl == [vp.free_length EXCEPT ![i] = @ - k]
    IN IF fl[i] = 0
       THEN [vp EXCEPT !.free_base_page = RemoveAt(fb, i),
                       !.free_length = RemoveAt(fl, i),
                       !.free_count = @ - 1]
       ELSE [vp EXCEPT !.free_base_page = fb, !.free_length = fl]

\* What a store to entry [count] of a region array does.  With count below
\* REGION_SLOTS it is a store into the array.  With count = REGION_SLOTS it is
\* a store past the array: the members of VMPool lie in declaration order,
\* base_page[REGION_SLOTS] is length[0] and length[REGION_SLOTS] is the count
\* ("next_member"), or the build does anything else ("wild")
StoreOutcomes(count) ==
    IF count < REGION_SLOTS THEN {"inside"} ELSE {"next_member", "wild"}

\* base_page[count] = b; length[count] = k; count++ on a pair of arrays
StoreRegion(bases, lengths, count, b, k, outcome) ==
    CASE outcome = "inside" ->
           [bases |-> Append(bases, b), lengths |-> Append(lengths, k),
            count |-> count + 1, wild |-> FALSE]
      [] outcome = "next_member" /\ k + 1 <= REGION_SLOTS ->
           [bases |-> SubSeq(bases, 1, k + 1),
            lengths |-> SubSeq([lengths EXCEPT ![1] = b], 1, k + 1),
            count |-> k + 1, wild |-> FALSE]
      [] OTHER ->
           [bases |-> bases, lengths |-> lengths, count |-> count, wild |-> TRUE]

\* VMPool::allocate(_size) on pool v
Allocate(v, sz) ==
    /\ vmpools[v].st = "live"
    /\ ~vmpools[v].wild
    /\ LET vp == vmpools[v]
           num_pages_needed == PagesNeeded(sz)
           i == FirstFree(vp, num_pages_needed, 1)
       IN IF i = nullptr
          THEN /\ vmpools' = vmpools
               /\ vmlast' = [op |-> "allocate", pool |-> v, a |-> sz,
                             ret |-> NullAddr]
          ELSE \E outcome \in StoreOutcomes(vp.allocated_count) :
                 LET allocated_base == vp.free_base_page[i]
                     taken == TakeFree(vp, i, num_pages_needed)
                     st == StoreRegion(vp.allocated_base_page, vp.allocated_length,
                                       vp.allocated_count, allocated_base,
                                       num_pages_needed, outcome)
                 IN /\ vmpools' = [vmpools EXCEPT ![v] =
                          [taken EXCEPT !.allocated_base_page = st.bases,
                                        !.allocated_length = st.lengths,
                                        !.allocated_count = st.count,
                                        !.wild = st.wild]]
                    /\ vmlast' = [op |-> "allocate", pool |-> v, a |-> sz,
                                  ret |-> AddrOfPage(allocated_base)]
    /\ UNCHANGED <<page_table, current_page_table, paging_enabled,
                   kernel_mem_pool, process_mem_pool, mem>>
    /\ UNCHANGED vars

\* a variant of FirstAllocated that takes the first allocated region that
\* holds start_page, at its base or past it; C17 tells it from FirstAllocated
FirstAllocated_Containing(vp, start_page, i) ==
    LET m == {j \in i..vp.allocated_count :
                 /\ start_page >= vp.allocated_base_page[j]
                 /\ start_page < vp.allocated_base_page[j] + vp.allocated_length[j]}
    IN IF m = {} THEN nullptr ELSE CHOOSE j \in m : \A k \in m : j <= k

RECURSIVE FirstAllocated(_, _, _)
\* the loop of release from entry i on: the first allocated region whose base
\* page is start_page, nullptr when there is none
FirstAllocated(vp, start_page, i) ==
    IF i > vp.allocated_count THEN nullptr
    ELSE IF vp.allocated_base_page[i] = start_page THEN i
    ELSE FirstAllocated(vp, start_page, i + 1)

RECURSIVE LegitFrom(_, _, _)
\* the loop of is_legitimate from entry i on
LegitFrom(vp, page_number, i) ==
    IF i > vp.allocated_count THEN FALSE
    ELSE IF /\ page_number >= vp.allocated_base_page[i]
            /\ page_number < vp.allocated_base_page[i] + vp.allocated_length[i]
         THEN TRUE
         ELSE LegitFrom(vp, page_number, i + 1)

\* VMPool::is_legitimate(_address) on the pool object vp
is_legitimate(vp, a) == LegitFrom(vp, PageOf(a), 1)

\* a variant of release that also hands every frame of the process pool back
\* to it; C27 tells the two apart
Release_FreesFrames(v, a) ==
    /\ vmpools[v].st = "live"
    /\ ~vmpools[v].wild
    /\ LET vp == vmpools[v]
           i == FirstAllocated(vp, PageOf(a), 1)
       IN /\ vmpools' = IF i = nullptr THEN vmpools
                         ELSE [vmpools EXCEPT ![v] =
                                 [vp EXCEPT !.allocated_base_page = RemoveAt(@, i),
                                            !.allocated_length = RemoveAt(@, i),
                                            !.allocated_count = @ - 1]]
          /\ pools' = IF i = nullptr \/ process_mem_pool = NoPool THEN pools
                       ELSE [pools EXCEPT ![process_mem_pool].bitmap =
                               FreshBitmap(pools[process_mem_pool].nframes)]
    /\ vmlast' = [op |-> "release", pool |-> v, a |-> a, ret |-> NullAddr]
    /\ UNCHANGED <<page_table, current_page_table, paging_enabled,
                   kernel_mem_pool, process_mem_pool, mem>>
    /\ UNCHANGED <<framePoolNodes, head, tail, next_free_node, stray, hung, last>>

\* VMPool::release(_start_address) on pool v
Release(v, a) ==
    /\ vmpools[v].st = "live"
    /\ ~vmpools[v].wild
    /\ LET vp == vmpools[v]
           start_page == PageOf(a)
           i == FirstAllocated(vp, start_page, 1)
       IN IF i = nullptr
          THEN vmpools' = vmpools
          ELSE \E outcome \in StoreOutcomes(vp.free_count) :
                 LET st == StoreRegion(vp.free_base_page, vp.free_length,
                                       vp.free_count, vp.allocated_base_page[i],
                                       vp.allocated_length[i], outcome)
                 IN vmpools' = [vmpools EXCEPT ![v] =
                       [vp EXCEPT !.free_base_page = st.bases,
                                  !.free_length = st.lengths,
                                  !.free_count = st.count,
                                  !.wild = st.wild,
                                  !.allocated_base_page = RemoveAt(@, i),
                                  !.allocated_length = RemoveAt(@, i),
                                  !.allocated_count = @ - 1]]
    /\ vmlast' = [op |-> "release", pool |-> v, a |-> a, ret |-> NullAddr]
    /\ UNCHANGED <<page_table, current_page_table, paging_enabled,
                   kernel_mem_pool, process_mem_pool, mem>>
    /\ UNCHANGED vars

(****************************** physical memory ****************************)
ENTRIES_PER_PAGE == 1024
\* Present | RW, the low bits of an installed PDE or PTE
PresentRW == 3
\* Supervisor | RW | not present
NotPresentRW == 2
\* a word of a frame nothing has written
Junk == -1

\* The words of a frame: word i is over[i] when i is in its domain, and else
\* what the fill gives.
ZeroPage == [fill |-> "zero", over |-> <<>>]
JunkPage == [fill |-> "junk", over |-> <<>>]

\* entry = frame * PAGE_SIZE | bits
EntryOf(frame, bits) == frame * PAGE_SIZE + bits

\* the frame an entry names, and its Present bit
FrameOfEntry(w) == w \div PAGE_SIZE
IsPresent(w) == w % 2 = 1

PageAt(m, frame) == IF frame \in DOMAIN m THEN m[frame] ELSE JunkPage

ReadWord(m, frame, i) ==
    LET page == PageAt(m, frame)
    IN IF i \in DOMAIN page.over THEN page.over[i]
       ELSE CASE page.fill = "zero" -> 0
              [] page.fill = "np" -> NotPresentRW
              [] page.fill = "ident" -> EntryOf(i, PresentRW)
              [] OTHER -> Junk

WriteWord(m, frame, i, w) ==
    LET page == PageAt(m, frame)
    IN (frame :> [page EXCEPT !.over = (i :> w) @@ @]) @@ m

(****************************** the page table *****************************)
PTUnborn ==
    [st |-> "unborn", page_directory |-> 0, pool_count |-> 0, vm_pools |-> <<>>,
     wild |-> FALSE]

\* (addr >> 22) & 0x3FF and (addr >> 12) & 0x3FF
pd_index(a) == (PageOf(a) \div ENTRIES_PER_PAGE) % ENTRIES_PER_PAGE
pt_index(a) == PageOf(a) % ENTRIES_PER_PAGE

\* 0xFFFFF000 | (pd_index << 2)
PDE_address(a) == <<TwoPow20 - 1, pd_index(a) * 4>>

\* a variant of PTE_address that shifts the two indexes the other way round;
\* C22 tells it from PTE_address
PTE_address_Swapped(a) ==
    <<(TwoPow20 - ENTRIES_PER_PAGE) + pt_index(a), pd_index(a) * 4>>

\* 0xFFC00000 | (pd_index << 12) | (pt_index << 2)
PTE_address(a) == <<(TwoPow20 - ENTRIES_PER_PAGE) + pd_index(a), pt_index(a) * 4>>

\* The walk of the MMU from the directory frame cr3 for the virtual address a:
\* the physical word [frame, word] it reaches, "fault" when an entry on the
\* way is not present, "junk" when the walk reads a word nothing has written.
Translate(m, cr3, a) ==
    LET pde == ReadWord(m, cr3, pd_index(a))
    IN IF pde = Junk THEN [kind |-> "junk", frame |-> 0, word |-> 0]
       ELSE IF ~IsPresent(pde) THEN [kind |-> "fault", frame |-> 0, word |-> 0]
       ELSE LET pte == ReadWord(m, FrameOfEntry(pde), pt_index(a))
            IN IF pte = Junk THEN [kind |-> "junk", frame |-> 0, word |-> 0]
               ELSE IF ~IsPresent(pte)
               THEN [kind |-> "fault", frame |-> 0, word |-> 0]
               ELSE [kind |-> "ok", frame |-> FrameOfEntry(pte),
                     word |-> a[2] \div 4]

\* process_mem_pool->get_frames(k) on the pools ps: the pools and the frame
GetFramesOn(ps, p, k) ==
    LET n == ps[p].nframes
        bm == ps[p].bitmap
        i == IF InvalidRequest(n, k) THEN nullptr ELSE Scan(bm, n, k, 0)
    IN IF i = nullptr THEN [pools |-> ps, ret |-> 0]
       ELSE [pools |-> [ps EXCEPT ![p].bitmap = MarkRun(bm, i, k)],
             ret |-> ps[p].base_frame_no + i]

\* PageTable::init_paging(_kernel_mem_pool, _process_mem_pool, _shared_size)
InitPaging(k, p) ==
    /\ ~hung
    /\ pools[k].st = "live"
    /\ pools[p].st = "live"
    /\ k # p
    /\ process_mem_pool = NoPool
    /\ kernel_mem_pool' = k
    /\ process_mem_pool' = p
    /\ vmlast' = [op |-> "init_paging", pool |-> 0, a |-> NullAddr, ret |-> NullAddr]
    /\ UNCHANGED <<vmpools, page_table, current_page_table, paging_enabled, mem>>
    /\ UNCHANGED vars

\* the directory as the constructor leaves it when it has its two frames
FreshDirectory(D, T) ==
    [fill |-> "np",
     over |-> (0 :> EntryOf(T, PresentRW))
                @@ ((ENTRIES_PER_PAGE - 1) :> EntryOf(D, PresentRW))]

\* PageTable::PageTable()
PTConstruct ==
    /\ ~hung
    /\ page_table.st = "unborn"
    /\ process_mem_pool # NoPool
    /\ LET g1 == GetFramesOn(pools, process_mem_pool, 1)
           D == g1.ret
           g2 == GetFramesOn(g1.pools, process_mem_pool, 1)
           T == g2.ret
       IN /\ pools' = g2.pools
          /\ page_table' = [PTUnborn EXCEPT !.st = "live", !.page_directory = D]
          /\ mem' = IF T = 0
                    THEN (D :> ZeroPage) @@ mem
                    ELSE (D :> FreshDirectory(D, T))
                           @@ (T :> [fill |-> "ident", over |-> <<>>]) @@ mem
    /\ vmlast' = [op |-> "PageTable", pool |-> 0, a |-> NullAddr, ret |-> NullAddr]
    /\ UNCHANGED <<vmpools, current_page_table, paging_enabled, kernel_mem_pool,
                   process_mem_pool>>
    /\ UNCHANGED <<framePoolNodes, head, tail, next_free_node, stray, hung, last>>

\* PageTable::load()
Load ==
    /\ page_table.st = "live"
    /\ current_page_table = nullptr
    /\ current_page_table' =
          IF page_table.page_directory = 0 THEN nullptr ELSE 1
    /\ vmlast' = [op |-> "load", pool |-> 0, a |-> NullAddr, ret |-> NullAddr]
    /\ UNCHANGED <<vmpools, page_table, paging_enabled, kernel_mem_pool,
                   process_mem_pool, mem>>
    /\ UNCHANGED vars

\* PageTable::enable_paging()
EnablePaging ==
    /\ current_page_table # nullptr
    /\ paging_enabled = 0
    /\ paging_enabled' = 1
    /\ vmlast' = [op |-> "enable_paging", pool |-> 0, a |-> NullAddr, ret |-> NullAddr]
    /\ UNCHANGED <<vmpools, page_table, current_page_table, kernel_mem_pool,
                   process_mem_pool, mem>>
    /\ UNCHANGED vars

\* a variant of Legitimate that asks whether a lies in the range of some
\* registered pool, allocated or not; C19 tells it from Legitimate
Legitimate_InRange(a) ==
    \E i \in 1..page_table.pool_count :
        LET vp == vmpools[page_table.vm_pools[i]]
        IN /\ PageOf(a) >= PageOf(vp.base_address)
           /\ PageOf(a) < PageOf(vp.base_address) + PageOf(vp.size)

\* some pool registered with the current page table reports a legitimate
Legitimate(a) ==
    \E i \in 1..page_table.pool_count :
        is_legitimate(vmpools[page_table.vm_pools[i]], a)

\* what a step of the handler leaves: it went on ("ok"), it returned
\* ("return"), or a dereference of its own faulted or read a word nothing had
\* written ("wild")
Left(kind, ps, m) == [kind |-> kind, pools |-> ps, mem |-> m]

\* handle_fault, the page table of a: if (!(*pde & 0x1)) { ... }
InstallTable(ps, m, cr3, a) ==
    LET pde == Translate(m, cr3, PDE_address(a))
        w == ReadWord(m, pde.frame, pde.word)
        g == GetFramesOn(ps, process_mem_pool, 1)
        m1 == WriteWord(m, pde.frame, pde.word, EntryOf(g.ret, PresentRW))
        new_page_table ==
            Translate(m1, cr3, <<(TwoPow20 - ENTRIES_PER_PAGE) + pd_index(a), 0>>)
    IN IF pde.kind # "ok" \/ w = Junk THEN Left("wild", ps, m)
       ELSE IF IsPresent(w) THEN Left("ok", ps, m)
       ELSE IF g.ret = 0 THEN Left("return", ps, m)
       ELSE IF new_page_table.kind # "ok" THEN Left("wild", g.pools, m1)
       ELSE Left("ok", g.pools, (new_page_table.frame :> ZeroPage) @@ m1)

\* handle_fault, the page of a: if (!(*pte & 0x1)) { ... }
InstallPage(ps, m, cr3, a) ==
    LET pte == Translate(m, cr3, PTE_address(a))
        w == ReadWord(m, pte.frame, pte.word)
        g == GetFramesOn(ps, process_mem_pool, 1)
    IN IF pte.kind # "ok" \/ w = Junk THEN Left("wild", ps, m)
       ELSE IF IsPresent(w) THEN Left("ok", ps, m)
       ELSE IF g.ret = 0 THEN Left("return", ps, m)
       ELSE Left("ok", g.pools,
                 WriteWord(m, pte.frame, pte.word, EntryOf(g.ret, PresentRW)))

\* PageTable::handle_fault with the faulting address a in CR2
handle_fault(a) ==
    IF current_page_table = nullptr \/ ~Legitimate(a)
    THEN Left("return", pools, mem)
    ELSE LET cr3 == page_table.page_directory
             t == InstallTable(pools, mem, cr3, a)
         IN IF t.kind # "ok" THEN t
            ELSE InstallPage(t.pools, t.mem, cr3, a)

HandleFault(a) ==
    /\ ~hung
    /\ paging_enabled = 1
    /\ ~page_table.wild
    /\ LET r == handle_fault(a)
       IN /\ pools' = r.pools
          /\ mem' = r.mem
          /\ page_table' = [page_table EXCEPT !.wild = (r.kind = "wild")]
    /\ vmlast' = [op |-> "handle_fault", pool |-> 0, a |-> a, ret |-> NullAddr]
    /\ UNCHANGED <<vmpools, current_page_table, paging_enabled, kernel_mem_pool,
                   process_mem_pool>>
    /\ UNCHANGED <<framePoolNodes, head, tail, next_free_node, stray, hung, last>>

\* PageTable::free_page(_page_no)
free_page(m, cr3, page_no) ==
    LET virtual_address == AddrOfPage(page_no)
        pte == Translate(m, cr3, PTE_address(virtual_address))
        w == ReadWord(m, pte.frame, pte.word)
    IN IF pte.kind # "ok" \/ w = Junk THEN Left("wild", pools, m)
       ELSE IF ~IsPresent(w) THEN Left("return", pools, m)
       ELSE Left("ok", pools, WriteWord(m, pte.frame, pte.word, 0))

FreePage(page_no) ==
    /\ ~hung
    /\ paging_enabled = 1
    /\ ~page_table.wild
    /\ LET r == free_page(mem, page_table.page_directory, page_no)
       IN /\ mem' = r.mem
          /\ page_table' = [page_table EXCEPT !.wild = (r.kind = "wild")]
    /\ vmlast' = [op |-> "free_page", pool |-> 0, a |-> AddrOfPage(page_no),
                  ret |-> NullAddr]
    /\ UNCHANGED <<vmpools, current_page_table, paging_enabled, kernel_mem_pool,
                   process_mem_pool>>
    /\ UNCHANGED vars

(****************************** specification ******************************)
\* no VMPool or PageTable constructed, paging not initialised
VMInit ==
    /\ vmpools = [v \in 1..NVMPools |-> VMUnborn]
    /\ page_table = PTUnborn
    /\ current_page_table = nullptr
    /\ paging_enabled = 0
    /\ kernel_mem_pool = NoPool
    /\ process_mem_pool = NoPool
    /\ mem = <<>>
    /\ vmlast = [op |-> "none", pool |-> 0, a |-> NullAddr, ret |-> NullAddr]

Init == InitWith(1..NPools) /\ VMInit

InitReg == InitWith(1..NRegPools) /\ VMInit

\* the frame operations on up to NPools pools that live forever
Next ==
    \/ \E p \in DOMAIN pools, base \in 0..MaxBase, n \in 1..MaxSize, info \in 0..MaxInfo :
          Construct(p, base, n, info) /\ UNCHANGED vmvars
    \/ \E p \in DOMAIN pools, k \in 0..(MaxSize + 1) : GetFrames(p, k) /\ UNCHANGED vmvars
    \/ \E p \in DOMAIN pools, b \in FrameNos, k \in 0..MaxSize : MarkInaccessible(p, b, k) /\ UNCHANGED vmvars
    \/ \E f \in FrameNos, trap \in BOOLEAN : ReleaseFrames(f, trap) /\ UNCHANGED vmvars

Spec == Init /\ [][Next]_allvars

\* get_frames and release_frames only, on freshly constructed pools
NextAlloc ==
    \/ \E p \in DOMAIN pools, base \in 0..MaxBase, n \in 1..MaxSize, info \in 0..MaxInfo :
          Construct(p, base, n, info) /\ UNCHANGED vmvars
    \/ \E p \in DOMAIN pools, k \in 0..(MaxSize + 1) : GetFrames(p, k) /\ UNCHANGED vmvars
    \/ \E f \in FrameNos, trap \in BOOLEAN : ReleaseFrames(f, trap) /\ UNCHANGED vmvars

SpecAlloc == Init /\ [][NextAlloc]_allvars

\* constructions and destructions of up to NRegPools one-frame pools that keep
\* their bitmap in their first frame, with get_frames and release_frames
NextReg ==
    \/ \E p \in DOMAIN pools, base \in 0..(2 * (NRegPools - 1)) :
          base = 2 * (p - 1) /\ Construct(p, base, 1, 0) /\ UNCHANGED vmvars
    \/ \E p \in DOMAIN pools : Destroy(p) /\ UNCHANGED vmvars
    \/ \E p \in DOMAIN pools : GetFrames(p, 1) /\ UNCHANGED vmvars
    \/ \E f \in 0..(2 * NRegPools), trap \in BOOLEAN : ReleaseFrames(f, trap) /\ UNCHANGED vmvars

SpecReg == InitReg /\ [][NextReg]_allvars

\* the boot of the memory manager: the kernel pool and the process pool, the
\* statics of PageTable, the PageTable object
BootPools == {<<1, KernelBase, KernelFrames, 0>>, <<2, ProcBase, ProcFrames, 0>>}

Boot ==
    \/ \E c \in BootPools :
          /\ \A d \in BootPools : d[1] < c[1] => pools[d[1]].st = "live"
          /\ Construct(c[1], c[2], c[3], c[4])
          /\ UNCHANGED vmvars
    \/ InitPaging(1, 2)
    \/ PTConstruct

\* sizes handed to allocate: none, a byte, whole pages, a byte more than whole
\* pages, and one that the rounding wraps
AllocSizes ==
    {<<q, r>> : q \in 0..MaxVMPages, r \in {0, 1}} \cup {<<TwoPow20 - 1, 1>>}

\* addresses handed to release and is_legitimate: in and next to the pool
NearAddrs(base) ==
    {<<(PageOf(base) + d) % TwoPow20, r>> : d \in 0..MaxVMPages, r \in {0, 1}}
        \cup {<<(PageOf(base) + TwoPow20 - 1) % TwoPow20, PAGE_SIZE - 1>>}

VMBases == {<<VMBasePage, 0>>}

\* one VMPool of up to MaxVMPages pages: allocate and release
NextVM ==
    \/ Boot
    \/ \E base \in VMBases, n \in 1..MaxVMPages : VMConstruct(1, base, <<n, 0>>)
    \/ \E sz \in AllocSizes :
          /\ vmpools[1].allocated_count < MaxVMRegions
          /\ Allocate(1, sz)
    \/ \E a \in NearAddrs(vmpools[1].base_address) :
          /\ vmpools[1].free_count < MaxVMRegions
          /\ Release(1, a)

SpecVM == Init /\ [][NextVM]_allvars

\* one VMPool of more pages than a region array has slots: allocate page after
\* page
NextFill ==
    \/ Boot
    \/ VMConstruct(1, <<VMBasePage, 0>>, <<REGION_SLOTS + MaxVMPages, 0>>)
    \/ Allocate(1, <<1, 0>>)

SpecFill == Init /\ [][NextFill]_allvars

\* first page of the recursive window 0xFFC00000..0xFFFFFFFF
WindowPage == TwoPow20 - ENTRIES_PER_PAGE

\* the VMPools of the paging runs: one past the identity-mapped 4 MiB, one over
\* the recursive window
PTPools ==
    {<<1, <<VMBasePage, 0>>, <<MaxVMPages, 0>>>>,
     <<2, <<WindowPage, 0>>, <<ENTRIES_PER_PAGE, 0>>>>}

\* what is allocated in them: one page, two pages, the whole window
PTAllocs ==
    {<<1, <<1, 0>>>>, <<1, <<2, 0>>>>, <<2, <<ENTRIES_PER_PAGE, 0>>>>}

\* pages touched and pages handed to free_page: in and past the first pool,
\* identity-mapped, the window's view of the table of the first pool, and the
\* window's view of the directory
ProbePages ==
    {VMBasePage + d : d \in 0..MaxVMPages}
        \cup {MaxVMPages, WindowPage + pd_index(<<VMBasePage, 0>>), TwoPow20 - 1}

\* an access to address a faults: the walk does not reach a frame
Faults(a) ==
    Translate(mem, page_table.page_directory, a).kind # "ok"

\* boot, paging switched on, VMPools, page faults and free_page
NextPT ==
    \/ Boot
    \/ Load
    \/ EnablePaging
    \/ \E c \in PTPools : VMConstruct(c[1], c[2], c[3])
    \/ \E c \in PTAllocs :
          /\ vmpools[c[1]].allocated_count < MaxVMRegions
          /\ Allocate(c[1], c[2])
    \/ \E pg \in ProbePages, off \in {0, PAGE_SIZE - 4} :
          /\ Faults(<<pg, off>>)
          /\ HandleFault(<<pg, off>>)
    \/ \E pg \in ProbePages : FreePage(pg)

SpecPT == Init /\ [][NextPT]_allvars

\* the paging run with the regions of the VMPools released as well
NextRel ==
    \/ NextPT
    \/ \E c \in PTPools, d \in 0..1 :
          /\ vmpools[c[1]].free_count < MaxVMRegions
          /\ Release(c[1], <<PageOf(c[2]) + d, 0>>)

SpecRel == Init /\ [][NextRel]_allvars

\* one VMPool more than the registry of the page table holds
ManyPools == MAX_POOLS + 1

\* the first page of the v-th of these pools, each MaxVMPages pages long
ManyBase(v) == <<VMBasePage + MaxVMPages * (v - 1), 0>>

InitMany ==
    /\ InitWith(1..NPools)
    /\ vmpools = [v \in 1..ManyPools |-> VMUnborn]
    /\ page_table = PTUnborn
    /\ current_page_table = nullptr
    /\ paging_enabled = 0
    /\ kernel_mem_pool = NoPool
    /\ process_mem_pool = NoPool
    /\ mem = <<>>
    /\ vmlast = [op |-> "none", pool |-> 0, a |-> NullAddr, ret |-> NullAddr]

\* boot, then the pools constructed one after the other on the one page
\* table, a page allocated in each and touched
NextMany ==
    \/ Boot
    \/ Load
    \/ EnablePaging
    \/ \E v \in 1..ManyPools : VMConstruct(v, ManyBase(v), <<MaxVMPages, 0>>)
    \/ \E v \in 1..ManyPools :
          /\ vmpools[v].allocated_count < 1
          /\ Allocate(v, <<1, 0>>)
    \/ \E v \in 1..ManyPools :
          /\ Faults(ManyBase(v))
          /\ HandleFault(ManyBase(v))

SpecMany == InitMany /\ [][NextMany]_allvars

\* a call of the static function needed_info_frames
NeededInfoFrames(n) ==
    /\ vmlast' = [op |-> "needed_info_frames", pool |-> 0, a |-> n,
                  ret |-> Word32(needed_info_frames_32(n))]
    /\ UNCHANGED <<vmpools, page_table, current_page_table, paging_enabled,
                   kernel_mem_pool, process_mem_pool, mem>>
    /\ UNCHANGED vars

\* frame counts around 0, around 2^31 and below 2^32
NifInputs ==
    {<<pg, off>> :
        pg \in (0..MaxNifPages)
                 \cup ((TwoPow20 \div 2 - MaxNifPages)..(TwoPow20 \div 2 + MaxNifPages))
                 \cup ((TwoPow20 - MaxNifPages)..(TwoPow20 - 1)),
        off \in {0, 1, PAGE_SIZE - 1}}

\* needed_info_frames on its own
NextNif == \E n \in NifInputs : NeededInfoFrames(n)

SpecNif == Init /\ [][NextNif]_allvars

(**************************** what the claims use ***************************)
Live == {q \in DOMAIN pools : pools[q].st = "live"}

\* the indexes of pool q's frames
Indexes(q) == 0..(pools[q].nframes - 1)

\* the state of cell i of pool q, before and after a step
CellState(q, i) == get_state(pools[q].bitmap, i)
CellStateAfter(q, i) == get_state(pools'[q].bitmap, i)

\* the index of frame f in pool q, as release_frames computes it
IndexOf(q, f) == f - pools[q].base_frame_no

\* the indexes at which a window of k Free frames starts in pool q
FreeWindows(q, k) ==
    {i \in 0..(pools[q].nframes - k) : \A j \in 0..(k - 1) : CellState(q, i + j) = "Free"}

Least(S) == CHOOSE x \in S : \A y \in S : x <= y

\* the step is the call get_frames(k) on pool p
GetFramesStep(p, k) ==
    /\ last'.op = "get_frames" /\ last'.pool = p /\ last'.a = k
    /\ GetFrames(p, k)

\* the step is the call mark_inaccessible(b, k) on pool p
MarkInaccessibleStep(p, b, k) ==
    /\ last'.op = "mark_inaccessible" /\ last'.pool = p /\ last'.a = b
    /\ MarkInaccessible(p, b, k)

\* the step is the call release_frames(f)
ReleaseFramesStep(f, trap) ==
    /\ last'.op = "release_frames" /\ last'.a = f
    /\ ReleaseFrames(f, trap)

(********************************** C1 *************************************)
\* C1: whenever get_frames(k) returns f # 0, frame f is HeadOfSequence and the
\* frames f+1 .. f+k-1 are Used afterwards, and all k frames were Free before
\* the call.
C1_GetFramesMarksRun ==
    [][\A p \in DOMAIN pools, k \in 0..(MaxSize + 1) :
          (GetFramesStep(p, k) /\ last'.ret # 0) =>
              LET i == IndexOf(p, last'.ret)
              IN /\ i \in Indexes(p)
                 /\ i + k - 1 \in Indexes(p)
                 /\ CellStateAfter(p, i) = "HoS"
                 /\ \A j \in 1..(k - 1) : CellStateAfter(p, i + j) = "Used"
                 /\ \A j \in 0..(k - 1) : CellState(p, i + j) = "Free"]_vars

\* a get_frames of three frames has returned a frame
C1_Witness ==
    /\ last.op = "get_frames"
    /\ last.ret # 0
    /\ last.a = 3
    /\ CellState(last.pool, IndexOf(last.pool, last.ret) + 2) = "Used"

(********************************** C2 *************************************)
\* C2: every frame of every run get_frames returns lies inside the range
\* [base, base+n) that was passed to the pool's constructor, self-hosted pools
\* (info_frame_no = 0) included.
C2_RunInsideConstructorRange ==
    (last.op = "get_frames" /\ last.ret # 0) =>
        \A j \in 0..(last.a - 1) :
            /\ pools[last.pool].arg_base <= last.ret + j
            /\ last.ret + j < pools[last.pool].arg_base + pools[last.pool].nframes

(********************************** C3 *************************************)
\* C3: from freshly constructed pools and through get_frames and
\* release_frames only, once no allocation of a pool is outstanding (no frame
\* of it is a head of sequence), every frame of the pool has the state it had
\* right after construction.  Stated for the pools whose base_frame_no is
\* not 0, whose get_frames never returns an allocated frame as 0.  Checked
\* under SpecAlloc.
C3_AllReleasedRestoresInitial ==
    \A q \in Live :
        (/\ pools[q].base_frame_no # 0
         /\ \A i \in Indexes(q) : CellState(q, i) # "HoS") =>
            pools[q].bitmap =
                ConstructBitmap(pools[q].arg_base, pools[q].nframes,
                                pools[q].info_frame_no)

(********************************** C4 *************************************)
\* C4: release_frames(f) on the head f of the allocation of k frames that
\* get_frames(k) has just returned, when it reaches the pool of the
\* allocation, sets exactly the frames f .. f+k-1 of that pool to Free and
\* changes no other frame of any pool.  Checked under SpecAlloc.
C4_ReleaseFreesExactlyTheRun ==
    [][\A f \in FrameNos :
          (/\ ReleaseFramesStep(f, FALSE)
           /\ last.op = "get_frames"
           /\ last.ret = f
           /\ f # 0
           /\ last'.pool = last.pool) =>
              \A q \in DOMAIN pools : \A i \in Indexes(q) :
                  CellStateAfter(q, i) =
                      IF /\ q = last.pool
                         /\ i >= IndexOf(q, f)
                         /\ i < IndexOf(q, f) + last.a
                      THEN "Free"
                      ELSE CellState(q, i)]_vars

(********************************** C5 *************************************)
\* C5 as claimed: for 1 <= k <= n, get_frames(k) returns base + i for the
\* least i whose window of k frames is Free, and returns 0 exactly when there
\* is no such window.
C5_ZeroExactlyWhenNoWindow ==
    [][\A p \in DOMAIN pools, k \in 1..MaxSize :
          (GetFramesStep(p, k) /\ k <= pools[p].nframes) =>
              /\ FreeWindows(p, k) # {} =>
                    last'.ret = pools[p].base_frame_no + Least(FreeWindows(p, k))
              /\ last'.ret = 0 <=> FreeWindows(p, k) = {}]_vars

\* C5 as amended: for 1 <= k <= n, get_frames(k) returns base + i for the
\* least i whose window of k frames is Free, and 0 when there is no such
\* window; a return of 0 means that there is no window only for a pool whose
\* base_frame_no is not 0.
C5_FirstFit ==
    [][\A p \in DOMAIN pools, k \in 1..MaxSize :
          (GetFramesStep(p, k) /\ k <= pools[p].nframes) =>
              /\ FreeWindows(p, k) # {} =>
                    last'.ret = pools[p].base_frame_no + Least(FreeWindows(p, k))
              /\ FreeWindows(p, k) = {} => last'.ret = 0
              /\ pools[p].base_frame_no # 0 =>
                    (last'.ret = 0 <=> FreeWindows(p, k) = {})]_vars

\* get_frames(2) has passed over the allocated frame at index 0 and has
\* returned the window at index 1
C5_Witness ==
    /\ last.op = "get_frames"
    /\ last.a = 2
    /\ pools[last.pool].base_frame_no # 0
    /\ last.ret = pools[last.pool].base_frame_no + 1
    /\ CellState(last.pool, 0) = "HoS"
    /\ CellState(last.pool, 1) = "HoS"
    /\ CellState(last.pool, 2) = "Used"

(********************************** C6 *************************************)
\* the range [b, b+k) lies in pool p: what mark_inaccessible accepts
Contained(p, b, k) ==
    /\ b >= pools[p].base_frame_no
    /\ b + k <= pools[p].base_frame_no + pools[p].nframes

\* C6: after mark_inaccessible(b, k) on a range of Free frames of the pool, no
\* get_frames of the pool returns a run that overlaps [b, b+k), whatever the
\* pool's base frame number.
C6_MarkedRangeNotAllocated ==
    [][\A p \in DOMAIN pools, b \in FrameNos, k \in 1..MaxSize :
          (/\ MarkInaccessibleStep(p, b, k)
           /\ Contained(p, b, k)
           /\ \A g \in b..(b + k - 1) : CellState(p, IndexOf(p, g)) = "Free") =>
              \A k2 \in 1..pools[p].nframes :
                  LET i == Scan(pools'[p].bitmap, pools[p].nframes, k2, 0)
                      f == pools[p].base_frame_no + i
                  IN i = nullptr \/ f + k2 <= b \/ b + k <= f]_vars

(********************************** C7 *************************************)
\* C7: mark_inaccessible(b, k) on a range that lies in the pool sets frame b to
\* HeadOfSequence and the frames b+1 .. b+k-1 to Used, and changes the state
\* of no other frame.
C7_MarkSetsExactlyTheRange ==
    [][\A p \in DOMAIN pools, b \in FrameNos, k \in 1..MaxSize :
          (MarkInaccessibleStep(p, b, k) /\ Contained(p, b, k)) =>
              \A q \in DOMAIN pools : \A i \in Indexes(q) :
                  CellStateAfter(q, i) =
                      IF q = p /\ i = IndexOf(p, b) THEN "HoS"
                      ELSE IF q = p /\ i > IndexOf(p, b) /\ i < IndexOf(p, b) + k
                      THEN "Used"
                      ELSE CellState(q, i)]_vars

(********************************** C8 *************************************)
\* C8: get_frames(k) with k = 0 or k > n returns 0 and changes the state of
\* no frame.
C8_InvalidRequestChangesNothing ==
    [][\A p \in DOMAIN pools, k \in 0..(MaxSize + 1) :
          (GetFramesStep(p, k) /\ (k = 0 \/ k > pools[p].nframes)) =>
              (last'.ret = 0 /\ pools' = pools)]_vars

\* get_frames has refused a request for more frames than the pool has, while
\* every frame of the pool was Free
C8_Witness ==
    /\ last.op = "get_frames"
    /\ last.a > pools[last.pool].nframes
    /\ last.ret = 0
    /\ \A i \in Indexes(last.pool) : CellState(last.pool, i) = "Free"

(********************************** C9 *************************************)
\* C9: release_frames(f) changes the state of no frame of any pool when the
\* registered pool that holds f has f in a state other than HeadOfSequence,
\* and when no registered pool holds f.
C9_InvalidReleaseChangesNothing ==
    [][\A f \in FrameNos, trap \in BOOLEAN :
          (/\ ReleaseFramesStep(f, trap)
           /\ LET w == WalkRelease(head, f, MAX_FRAME_POOLS, FALSE)
              IN \/ w.kind # "found"
                 \/ CellState(w.pool, IndexOf(w.pool, f)) # "HoS") =>
              pools' = pools]_vars

\* release_frames has been called on a frame that is Used, in the middle of an
\* allocation of its pool
C9_Witness ==
    /\ last.op = "release_frames"
    /\ last.pool # NoPool
    /\ IndexOf(last.pool, last.a) >= 1
    /\ CellState(last.pool, IndexOf(last.pool, last.a)) = "Used"
    /\ CellState(last.pool, IndexOf(last.pool, last.a) - 1) = "HoS"

(********************************** C10 ************************************)
RECURSIVE RegistryList(_, _)
\* the pools of the nodes reachable from current, at most fuel of them
RegistryList(current, fuel) ==
    IF current = nullptr \/ fuel = 0 THEN <<>>
    ELSE <<framePoolNodes[current].pool>>
             \o RegistryList(framePoolNodes[current].next, fuel - 1)

Occurrences(l, q) == Cardinality({i \in 1..Len(l) : l[i] = q})

\* C10: after any constructions and destructions of no more than
\* MAX_FRAME_POOLS pools, the list reachable from head holds every live pool
\* exactly once and no destroyed pool, and the walk of release_frames reaches
\* the pool that owns f for every frame f of every live pool.  Checked under
\* SpecReg.
C10_RegistryHoldsLivePoolsOnce ==
    (~hung /\ Cardinality(Constructed) <= MAX_FRAME_POOLS) =>
        LET l == RegistryList(head, MAX_FRAME_POOLS + 1)
        IN /\ Len(l) <= MAX_FRAME_POOLS
           /\ \A q \in DOMAIN pools :
                 Occurrences(l, q) = IF q \in Live THEN 1 ELSE 0
           /\ \A q \in Live : \A f \in 0..(2 * NRegPools) :
                 InPool(q, f) =>
                     WalkRelease(head, f, MAX_FRAME_POOLS, FALSE).pool = q

(********************************** C11 ************************************)
\* the pages of the region (b, k)
Pages(b, k) == b..(b + k - 1)

\* the regions of a pool: the free ones, then the allocated ones
Regions(vp) ==
    [i \in 1..vp.free_count |-> Pages(vp.free_base_page[i], vp.free_length[i])]
        \o [i \in 1..vp.allocated_count |->
                Pages(vp.allocated_base_page[i], vp.allocated_length[i])]

\* [base / PAGE_SIZE, (base + size) / PAGE_SIZE)
PoolPages(vp) ==
    PageOf(vp.base_address)..(PageOf(AddrPlus(vp.base_address, vp.size)) - 1)

\* C11: after any sequence of allocate and release calls on a pool, the free
\* regions and the allocated regions are pairwise disjoint as sets of pages and
\* their union is exactly the page range of the pool.
C11_RegionsPartitionPool ==
    \A v \in DOMAIN vmpools :
        vmpools[v].st = "live" =>
            LET r == Regions(vmpools[v])
            IN /\ \A i, j \in DOMAIN r : i < j => r[i] \cap r[j] = {}
               /\ UNION {r[i] : i \in DOMAIN r} = PoolPages(vmpools[v])

(********************************** C12 ************************************)
\* allocate(sz) has just run on pool v
AllocateStep(v, sz) ==
    /\ vmlast'.op = "allocate"
    /\ vmlast'.pool = v
    /\ vmlast'.a = sz
    /\ Allocate(v, sz)

\* C12: a pool never holds more than REGION_SLOTS free regions nor more than
\* REGION_SLOTS allocated regions, and an allocate that finds the allocated
\* array full returns 0 and writes nothing.
C12_NeverPastTheArrays ==
    /\ [](\A v \in DOMAIN vmpools :
             /\ vmpools[v].free_count <= REGION_SLOTS
             /\ vmpools[v].allocated_count <= REGION_SLOTS)
    /\ [][\A v \in DOMAIN vmpools, sz \in AllocSizes :
             (AllocateStep(v, sz) /\ vmpools[v].allocated_count = REGION_SLOTS) =>
                 (vmlast'.ret = NullAddr /\ vmpools' = vmpools)]_allvars


(********************************** C13 ************************************)
\* C13: after an allocate(s) that returned v # 0, is_legitimate(v) and
\* is_legitimate(v + s - 1) are true, and is_legitimate(v - 1) is false when v
\* is not the base address of the pool, whatever else is allocated.
C13_AllocatedEndsLegitimate ==
    (vmlast.op = "allocate" /\ vmlast.ret # NullAddr) =>
        LET vp == vmpools[vmlast.pool]
            v == vmlast.ret
            s == vmlast.a
        IN /\ is_legitimate(vp, v)
           /\ is_legitimate(vp, AddrMinusOne(AddrPlus(v, s)))
           /\ v # vp.base_address => ~is_legitimate(vp, AddrMinusOne(v))


(********************************** C14 ************************************)
\* release(a) was the last call on pool v, it gave back a region of k pages
\* at a # 0, and nothing is allocated in the pool any more
OnlyRegionReleased(v, a, k) ==
    /\ vmlast.op = "release"
    /\ vmlast.pool = v
    /\ vmlast.a = a
    /\ a # NullAddr
    /\ a[2] = 0
    /\ vmpools[v].allocated_count = 0
    /\ vmpools[v].free_count >= 1
    /\ vmpools[v].free_base_page[vmpools[v].free_count] = PageOf(a)
    /\ vmpools[v].free_length[vmpools[v].free_count] = k

\* C14: on a pool whose only allocation was the region at v obtained by
\* allocate(s), release(v) followed by allocate(s) returns v again.
C14_ReleaseThenAllocateSameAddress ==
    [][\A v \in DOMAIN vmpools, sz \in AllocSizes :
          (/\ AllocateStep(v, sz)
           /\ OnlyRegionReleased(v, vmlast.a, PagesNeeded(sz))) =>
              vmlast'.ret = vmlast.a]_allvars


(********************************** C15 ************************************)
\* release(a) has just run on pool v
ReleaseStep(v, a) ==
    /\ vmlast'.op = "release"
    /\ vmlast'.pool = v
    /\ vmlast'.a = a
    /\ Release(v, a)

\* the allocated regions of vp whose base page is pg
AllocatedAt(vp, pg) ==
    {i \in 1..vp.allocated_count : vp.allocated_base_page[i] = pg}

\* the page of a lies inside some allocated region of vp
InAllocatedRegion(vp, a) ==
    \E i \in 1..vp.allocated_count :
        PageOf(a) \in Pages(vp.allocated_base_page[i], vp.allocated_length[i])

\* C15: is_legitimate(addr) is true if and only if the page of addr lies
\* inside some allocated region of the pool; and after release(v) of a region
\* that was allocated at v, no address inside that region is legitimate.
C15_LegitimateIffAllocated ==
    /\ [](\A v \in DOMAIN vmpools :
             vmpools[v].st = "live" =>
                 \A a \in NearAddrs(vmpools[v].base_address) :
                     is_legitimate(vmpools[v], a) <=>
                         InAllocatedRegion(vmpools[v], a))
    /\ [][\A v \in DOMAIN vmpools :
             \A a \in NearAddrs(vmpools[v].base_address) :
                 ReleaseStep(v, a) =>
                     \A i \in AllocatedAt(vmpools[v], PageOf(a)) :
                         \A pg \in Pages(vmpools[v].allocated_base_page[i],
                                         vmpools[v].allocated_length[i]) :
                             ~is_legitimate(vmpools'[v], <<pg, 0>>)]_allvars


(********************************** C16 ************************************)
\* a > b on byte counts
Larger(a, b) == a[1] > b[1] \/ (a[1] = b[1] /\ a[2] > b[2])

\* C16: allocate(bytes) with bytes = 0, or with bytes larger than the pool,
\* returns 0 and leaves the free list and the allocated list as they were.
C16_InvalidAllocateChangesNothing ==
    [][\A v \in DOMAIN vmpools, sz \in AllocSizes :
          (/\ AllocateStep(v, sz)
           /\ (sz = NullAddr \/ Larger(sz, vmpools[v].size))) =>
              (vmlast'.ret = NullAddr /\ vmpools' = vmpools)]_allvars

(********************************** C17 ************************************)
\* C17: release(addr) leaves the free list and the allocated list as they were
\* whenever the page of addr is not the base page of an allocated region: an
\* address inside an allocated region, in a free region, or outside the pool.
C17_InvalidReleaseChangesNothing ==
    [][\A v \in DOMAIN vmpools :
          \A a \in NearAddrs(vmpools[v].base_address) :
              (ReleaseStep(v, a) /\ AllocatedAt(vmpools[v], PageOf(a)) = {}) =>
                  vmpools' = vmpools]_allvars

\* release has been called on an address inside an allocated region, past its
\* base page
C17_Witness ==
    /\ vmlast.op = "release"
    /\ AllocatedAt(vmpools[vmlast.pool], PageOf(vmlast.a)) = {}
    /\ InAllocatedRegion(vmpools[vmlast.pool], vmlast.a)


(********************************** C18 ************************************)
\* handle_fault has just run with the faulting address a
HandleFaultStep(a) ==
    /\ vmlast'.op = "handle_fault"
    /\ vmlast'.a = a
    /\ HandleFault(a)

\* the addresses the faults of the paging runs are taken at
ProbeAddrs == {<<pg, off>> : pg \in ProbePages, off \in {0, PAGE_SIZE - 4}}

\* the walk for a stops at an entry that is not present
NotPresent(m, a) == Translate(m, page_table.page_directory, a).kind = "fault"

\* the PDE and the PTE of a are present
Present(m, a) == Translate(m, page_table.page_directory, a).kind = "ok"

\* C18: handle_fault on an address a that some registered VMPool reports
\* legitimate, with the PTE of a not present, ends with the PDE and the PTE of
\* a present, so that the access to a does not fault again.
C18_FaultInstallsThePage ==
    [][\A a \in ProbeAddrs :
          (HandleFaultStep(a) /\ Legitimate(a) /\ NotPresent(mem, a)) =>
              Present(mem', a)]_allvars


(********************************** C19 ************************************)
\* the page of a lies in no allocated region of any pool registered with the
\* page table
NoPoolClaims(a) ==
    \A i \in 1..page_table.pool_count :
        ~InAllocatedRegion(vmpools[page_table.vm_pools[i]], a)

\* C19: handle_fault on an address that no VMPool registered with the current
\* page table reports legitimate changes nothing: no PDE or PTE is modified
\* and no frame of the kernel pool or of the process pool changes state.
C19_IllegitimateFaultChangesNothing ==
    [][\A a \in ProbeAddrs :
          (HandleFaultStep(a) /\ NoPoolClaims(a)) =>
              (mem' = mem /\ pools' = pools)]_allvars

\* handle_fault has run on an address of a registered pool that has an
\* allocated region, at a page that is not allocated
C19_Witness ==
    /\ vmlast.op = "handle_fault"
    /\ NoPoolClaims(vmlast.a)
    /\ \E i \in 1..page_table.pool_count :
          LET vp == vmpools[page_table.vm_pools[i]]
          IN /\ vp.allocated_count >= 1
             /\ PageOf(vmlast.a) \in PoolPages(vp)

(********************************** C20 ************************************)
\* C20: PDE 1023 of the directory of a PageTable holds the address of the
\* directory frame with Present and RW, after construction and after any
\* handle_fault, free_page and register_pool calls, those on the recursive
\* window 0xFFC00000..0xFFFFFFFF included.
C20_RecursiveEntryKept ==
    page_table.st = "live" =>
        ReadWord(mem, page_table.page_directory, ENTRIES_PER_PAGE - 1)
            = EntryOf(page_table.page_directory, PresentRW)


(********************************** C21 ************************************)
\* C21: in every PageTable, after construction and after any handle_fault and
\* free_page calls, each page p of the first 4 MiB (0..1023) is mapped Present
\* to the physical frame p.
C21_IdentityMappingKept ==
    page_table.st = "live" =>
        \A p \in 0..(ENTRIES_PER_PAGE - 1) :
            LET t == Translate(mem, page_table.page_directory, <<p, 0>>)
            IN t.kind = "ok" /\ t.frame = p


(********************************** C22 ************************************)
\* addresses of every 4 MiB region: its first and its last page
RegionAddrs ==
    {<<pd * ENTRIES_PER_PAGE + pt, 0>> :
        pd \in 0..(ENTRIES_PER_PAGE - 1), pt \in {0, ENTRIES_PER_PAGE - 1}}

\* the directory is loaded and its PDE 1023 points to it
RecursiveLoaded ==
    /\ current_page_table # nullptr
    /\ ReadWord(mem, page_table.page_directory, ENTRIES_PER_PAGE - 1)
          = EntryOf(page_table.page_directory, PresentRW)

\* entry (a >> 22) of the directory
PDEOf(a) == ReadWord(mem, page_table.page_directory, pd_index(a))

\* C22: with a directory whose PDE 1023 points to itself loaded, the walk for
\* PDE_address(a) ends at entry (a >> 22) of the directory frame, and the walk
\* for PTE_address(a) ends at entry ((a >> 12) & 0x3FF) of the page table that
\* PDE (a >> 22) names, for every address a whose PDE is present.
C22_RecursiveAddressesReachTheEntries ==
    RecursiveLoaded =>
        \A a \in RegionAddrs :
            IsPresent(PDEOf(a)) =>
                /\ Translate(mem, page_table.page_directory, PDE_address(a))
                      = [kind |-> "ok", frame |-> page_table.page_directory,
                         word |-> pd_index(a)]
                /\ Translate(mem, page_table.page_directory, PTE_address(a))
                      = [kind |-> "ok", frame |-> FrameOfEntry(PDEOf(a)),
                         word |-> pt_index(a)]

\* a page table installed by a fault is reached through the window
C22_Witness ==
    /\ RecursiveLoaded
    /\ vmlast.op = "handle_fault"
    /\ pd_index(vmlast.a) \notin {0, ENTRIES_PER_PAGE - 1}
    /\ IsPresent(PDEOf(vmlast.a))


(********************************** C23 ************************************)
\* free_page(page_no) has just run
FreePageStep(page_no) ==
    /\ vmlast'.op = "free_page"
    /\ vmlast'.a = AddrOfPage(page_no)
    /\ FreePage(page_no)

\* the physical word that holds the PTE of address a, when a is mapped
PTEWord(m, a) ==
    [frame |-> FrameOfEntry(ReadWord(m, page_table.page_directory, pd_index(a))),
     word |-> pt_index(a)]

\* C23: free_page(p) changes nothing if the PTE of page p is not present; if
\* it is present the PTE becomes 0 and nothing else changes: no other PTE or
\* PDE is written and the frame it named keeps its state in its frame pool.
\* In both cases the call returns.
C23_FreePageClearsOnlyThePTE ==
    [][\A pg \in ProbePages :
          FreePageStep(pg) =>
              /\ pools' = pools
              /\ ~page_table'.wild
              /\ mem' = IF Present(mem, AddrOfPage(pg))
                        THEN LET e == PTEWord(mem, AddrOfPage(pg))
                             IN WriteWord(mem, e.frame, e.word, 0)
                        ELSE mem]_allvars


(********************************** C24 ************************************)
\* k * FRAME_SIZE * 8 / 2 as a count <<q, r>> that stands for q * 4096 + r
HalfBitsOf(k) == <<k * (BitsPerInfoFrame \div (2 * PAGE_SIZE)), 0>>

\* C24: for every n >= 1, needed_info_frames(n) is the ceiling of
\* 2n / (FRAME_SIZE * 8): needed_info_frames(n) * FRAME_SIZE * 8 >= 2n and
\* (needed_info_frames(n) - 1) * FRAME_SIZE * 8 < 2n (both sides halved here).
C24_NeededInfoFramesIsCeiling ==
    (vmlast.op = "needed_info_frames" /\ vmlast.a # NullAddr) =>
        LET n == vmlast.a
            k == needed_info_frames_32(n)
        IN /\ ~Larger(n, HalfBitsOf(k))
           /\ Larger(n, HalfBitsOf(k - 1))


(********************************** C25 ************************************)
\* C25: right after a ContFramePool is constructed, with info_frame_no zero or
\* not, and the info frame inside or outside the range of the pool, every one
\* of the n frames the pool manages is Free.
C25_ConstructedPoolAllFree ==
    last.op = "construct" =>
        \A i \in Indexes(last.pool) : CellState(last.pool, i) = "Free"


\* C25 as the constructor has it: right after construction every frame of the
\* pool is Free, except the frame info_frame_no when it is not 0 and lies in
\* the pool, which is Used.
C25_AllFreeButTheInfoFrame ==
    last.op = "construct" =>
        \A i \in Indexes(last.pool) :
            CellState(last.pool, i) =
                IF /\ pools[last.pool].info_frame_no # 0
                   /\ i = IndexOf(last.pool, pools[last.pool].info_frame_no)
                THEN "Used" ELSE "Free"

\* a pool has been constructed with its info frame given and inside its range,
\* past its first frame
C25_Witness ==
    /\ last.op = "construct"
    /\ pools[last.pool].info_frame_no # 0
    /\ IndexOf(last.pool, pools[last.pool].info_frame_no) \in Indexes(last.pool) \ {0}


(********************************** C26 ************************************)
\* the frames of pool q that are Free, in the pools ps
FreeFrames(ps, q) ==
    {i \in 0..(ps[q].nframes - 1) : get_state(ps[q].bitmap, i) = "Free"}

\* the entries of the paging frames that are present in m
PresentEntries(m) ==
    {<<f, i>> \in (DOMAIN m) \X (0..(ENTRIES_PER_PAGE - 1)) :
        ReadWord(m, f, i) # Junk /\ IsPresent(ReadWord(m, f, i))}

\* the frames a fault at a has to take: one for a page table that is missing,
\* one for the page
FramesDue(a) ==
    (IF IsPresent(PDEOf(a)) THEN 0 ELSE 1) + (IF Present(mem, a) THEN 0 ELSE 1)

\* C26: a handle_fault on a legitimate address takes from the process pool
\* exactly one frame if the PDE is not present plus exactly one frame if the
\* PTE is not present, takes no frame from the kernel pool, and overwrites no
\* PDE or PTE that is present.
C26_FaultTakesExactlyTheFramesDue ==
    [][\A a \in ProbeAddrs :
          (HandleFaultStep(a) /\ Legitimate(a)) =>
              /\ FreeFrames(pools', process_mem_pool)
                    \subseteq FreeFrames(pools, process_mem_pool)
              /\ Cardinality(FreeFrames(pools, process_mem_pool))
                    - Cardinality(FreeFrames(pools', process_mem_pool))
                    = FramesDue(a)
              /\ pools'[kernel_mem_pool] = pools[kernel_mem_pool]
              /\ \A e \in PresentEntries(mem) :
                    ReadWord(mem', e[1], e[2]) = ReadWord(mem, e[1], e[2])]_allvars



\* ---------------------------------------------------------------------------
\* C27: VMPool::allocate and VMPool::release change only the region lists of
\* the pool they are called on: no frame of any ContFramePool changes state,
\* no PDE or PTE is written and no other VMPool changes. A page of a released
\* region that was resident keeps its present PTE, and the frame behind it
\* stays allocated in the frame pool.
VMPoolIds == DOMAIN vmpools

C27_AllocateReleaseTouchOnlyTheLists ==
    [][\A v \in VMPoolIds :
          ((\E c \in PTAllocs : AllocateStep(v, c[2]))
              \/ (\E c \in PTPools, d \in 0..1 :
                     ReleaseStep(v, <<PageOf(c[2]) + d, 0>>))) =>
              /\ pools' = pools
              /\ mem' = mem
              /\ page_table' = page_table
              /\ \A u \in VMPoolIds \ {v} : vmpools'[u] = vmpools[u]]_allvars

\* the region at the base of the first pool has just been released while its
\* first page is resident: the page is still mapped and its frame is still
\* not Free in the process pool
C27_Witness ==
    /\ vmlast.op = "release"
    /\ vmlast.pool = 1
    /\ vmlast.a = <<VMBasePage, 0>>
    /\ vmpools[1].free_count >= 1
    /\ ~InAllocatedRegion(vmpools[1], <<VMBasePage, 0>>)
    /\ Present(mem, <<VMBasePage, 0>>)
    /\ process_mem_pool # NoPool
    /\ Cardinality(FreeFrames(pools, process_mem_pool)) <= ProcFrames - 2


\* ---------------------------------------------------------------------------
\* C28: every VMPool that has been constructed on the page table appears
\* exactly once in the registry of the page table, and so an address inside
\* an allocated region of any constructed VMPool is legitimate to
\* handle_fault - for any number of constructed pools.
RegistryIndexes(v) ==
    {i \in 1..page_table.pool_count : page_table.vm_pools[i] = v}

C28_EveryPoolRegistered ==
    \A v \in VMPoolIds :
        vmpools[v].st = "live" =>
            /\ Cardinality(RegistryIndexes(v)) = 1
            /\ \A w \in VMPoolIds :
                  InAllocatedRegion(vmpools[v], ManyBase(w)) => Legitimate(ManyBase(w))

\* the part of C28 that the code keeps: an entry of the registry, once
\* written, is never removed or overwritten
C28_RegistryAppendOnly ==
    [][/\ page_table'.pool_count >= page_table.pool_count
       /\ \A i \in 1..page_table.pool_count :
             page_table'.vm_pools[i] = page_table.vm_pools[i]]_allvars

\* a fault inside the allocated page of a constructed pool was refused: the
\* page is still not mapped after handle_fault
C28_FaultRefused ==
    /\ vmlast.op = "handle_fault"
    /\ \E v \in VMPoolIds :
          /\ vmpools[v].st = "live"
          /\ InAllocatedRegion(vmpools[v], vmlast.a)
          /\ RegistryIndexes(v) = {}
    /\ ~page_table.wild
    /\ NotPresent(mem, vmlast.a)


\* ---------------------------------------------------------------------------
\* C29: every bitmap access of the constructor, get_frames, mark_inaccessible
\* and release_frames uses a pool-relative index i with 0 <= i < n: no call
\* writes a 2-bit state outside the bitmap of the n frames of its pool.
C29_NoAccessOutsideThePool == stray = {}


\* ---------------------------------------------------------------------------
\* C30: once every outstanding allocation of a VMPool has been released, an
\* allocate of the full size of the pool returns the base address of the
\* pool; and allocate of one byte or more returns 0 only if the pool holds no
\* run of ceil(bytes / PAGE_SIZE) contiguous pages outside every allocated
\* region.
UnallocatedPages(vp) ==
    {p \in PoolPages(vp) : ~InAllocatedRegion(vp, <<p, 0>>)}

HasRun(vp, k) ==
    \E s \in PoolPages(vp) : \A d \in 0..(k - 1) : s + d \in UnallocatedPages(vp)

C30_AllocateFindsAnyFreeRun ==
    [][\A v \in VMPoolIds, sz \in AllocSizes :
          AllocateStep(v, sz) =>
              /\ (vmpools[v].allocated_count = 0 /\ sz = vmpools[v].size) =>
                    vmlast'.ret = vmpools[v].base_address
              /\ (PagesNeeded(sz) >= 1 /\ vmlast'.ret = NullAddr) =>
                    ~HasRun(vmpools[v], PagesNeeded(sz))]_allvars


\* ---------------------------------------------------------------------------
\* C31: after any sequence of handle_fault and free_page calls on a loaded
\* page table, the frame that handle_fault has installed behind a page is not
\* the directory frame, nor the first page table, nor a frame that serves as
\* a page table, and no other mapped page shares it: no frame is a data page
\* and a paging structure at once.
\* the directory frame and the frame of every present PDE in memory m
PagingFrames(m) ==
    {page_table.page_directory}
        \cup {FrameOfEntry(ReadWord(m, page_table.page_directory, i)) :
                i \in {j \in 0..(ENTRIES_PER_PAGE - 1) :
                         /\ ReadWord(m, page_table.page_directory, j) # Junk
                         /\ IsPresent(ReadWord(m, page_table.page_directory, j))}}

\* the frame the walk for page p ends at in memory m
MappedFrame(m, p) == Translate(m, page_table.page_directory, <<p, 0>>).frame

C31_InstalledFrameIsADataPageOnly ==
    [][\A a \in ProbeAddrs :
          (HandleFaultStep(a) /\ NotPresent(mem, a) /\ Present(mem', a)) =>
              /\ MappedFrame(mem', PageOf(a)) \notin PagingFrames(mem')
              /\ \A p \in ProbePages \ {PageOf(a)} :
                    Present(mem', <<p, 0>>) =>
                        MappedFrame(mem', p) # MappedFrame(mem', PageOf(a))]_allvars

\* the pages outside the recursive window that handle_fault maps
DataPages == {p \in ProbePages : pd_index(<<p, 0>>) \in 1..(ENTRIES_PER_PAGE - 2)}

\* the part of C31 that the code keeps: the frames behind the mapped pages
\* outside the window are pairwise distinct and none is a paging structure
C31_DataFramesApart ==
    \A p \in DataPages :
        Present(mem, <<p, 0>>) =>
            /\ MappedFrame(mem, p) \notin PagingFrames(mem)
            /\ \A q \in ProbePages \ {p} :
                  Present(mem, <<q, 0>>) => MappedFrame(mem, q) # MappedFrame(mem, p)

====
